---- MODULE Spec2Model ----
(***************************************************************************)
(* Model of the sensor resampling pipeline of mmac_captions:               *)
(*   resampling_sensor_raw_data.py  (interpolate, resampling,              *)
(*       resampling_main, create_feature, check_nearly_time_duplicate,     *)
(*       create_feature_main)                                              *)
(*   sensor_selected_timestamp.py   (select_data_main)                     *)
(*                                                                         *)
(* Time is counted in integer ticks.  Every timestamp the programs handle  *)
(* is a whole number of microseconds (datetime / timedelta round to the    *)
(* microsecond), so a tick stands for a fixed number of microseconds and   *)
(* sums and differences of timestamps are exact.  Durations pass through   *)
(* float seconds (total_seconds, timedelta(seconds=...)), which resolve a  *)
(* microsecond as long as the instants are less than about a century       *)
(* apart; the one float operation that is not exact on such values, the    *)
(* floor division, is FloorDivFloat below.  Sensor values are integers in  *)
(* units of 1e-6, the precision written by to_csv('%.6f').                 *)
(***************************************************************************)
EXTENDS Integers, Sequences, FiniteSets, TLC

VARIABLES
    \* ---- harness of the pure function interpolate ----
    lt_in,      \* <<df_1, df_2>>: two channel series (first one carries values)
    lt_anchor,  \* b_r, the representative lattice point
    lt_width,   \* width between lattice points
    lt_out,     \* <<r_1, r_2>>: what interpolate returned for each, or NoResult
    \* ---- main() of resampling_sensor_raw_data.py ----
    sample_width,   \* int(1000000 * (1.0 / sample_freq)) / 1000000.0, in ticks
    raw,            \* the raw sensor files under sensor_original_data_root_path
    video_head_timestamps,    \* the lines of video_head_timestamp_path
    start_timestamp_mapping,  \* session key -> start timestamp
    pc,             \* "idle", "resampling", "merging", "finished", or how the run
                    \* ended early: "resampling_raised", "merging_raised", "exited"
    idx,            \* position of the running loop in the sorted keys
    surfix_set,     \* common_values has 'resampling_file_name_surfix'
    artifacts,      \* <<file, series>> -> resampled csv (exists, rows)
    ret1,           \* ret of resampling_main
    ret2,           \* ret of create_feature_main
    selected,       \* session key -> '<name>_selected.csv' (exists, rows)
    \* ---- select_data_main of sensor_selected_timestamp.py, one key ----
    df_sensor_in,   \* the table read from input_sensor_data_dir
    min_time_video, \* video_head_timestamp_mapping[key_]
    fps,            \* setting['general']['sampling_frequency']
    sel_out,        \* <<first, second>>: the table written by select_data_main
                    \* and the one written when it is run again on that table
    sel_runs        \* how many times select_data_main has run

lt_vars == <<lt_in, lt_anchor, lt_width, lt_out>>
main_vars == <<sample_width, raw, video_head_timestamps, start_timestamp_mapping,
               pc, idx, surfix_set, artifacts, ret1, ret2, selected>>
sel_vars == <<df_sensor_in, min_time_video, fps, sel_out, sel_runs>>
vars == <<lt_vars, main_vars, sel_vars>>

(***************************************************************************)
(* Bounds of the model.                                                    *)
(***************************************************************************)
MaxTime    == 4    \* sample timestamps of the harness lie in 0..MaxTime
MaxSamples == 3    \* samples per series in the harness
MaxWidth   == 3    \* lattice widths 1..MaxWidth

(***************************************************************************)
(* Values.                                                                 *)
(***************************************************************************)
NaN == 0 - 1                      \* np.NAN; defined values are >= 0
NoResult == [bs |-> <<>>, result |-> <<>>, called |-> FALSE]

Max(S) == CHOOSE x \in S : \A y \in S : y <= x
Min(S) == CHOOSE x \in S : \A y \in S : x <= y

RECURSIVE SortSet(_)
SortSet(S) == IF S = {} THEN <<>> ELSE <<Min(S)>> \o SortSet(S \ {Min(S)})

(***************************************************************************)
(* a // w on Python floats (lines 90 and 92).  Both operands are floats    *)
(* that stand for whole microseconds.  When a is not a multiple of w the   *)
(* result is the exact floor.  When a is a multiple q*w with |q| >= 3 the  *)
(* rounding of the two operands decides between q and q - 1                *)
(* (0.566661 // 0.033333 = 16.0 although 566661 = 17 * 33333); which one   *)
(* depends on the microsecond values a tick abstracts, so the outcome is   *)
(* the parameter e \in {0, 1}.  For q in -2..2 the operands are exact      *)
(* multiples of each other as floats and the division is exact.            *)
(***************************************************************************)
FloorDivFloat(a, w, e) ==
    IF a % w = 0 /\ (a \div w) \notin -2..2
    THEN (a \div w) - e
    ELSE a \div w

(***************************************************************************)
(* b_0 of interpolate (lines 85-90).                                       *)
(***************************************************************************)
LatticeOriginIgnoringAnchor(leading_time, width, b_r, e) == leading_time

LatticeOriginAtOrBefore(leading_time, width, b_r, e) ==
    b_r + FloorDivFloat(leading_time - b_r, width, e) * width

LatticeOrigin(leading_time, width, b_r, e) ==
    LET dt1 == b_r - leading_time
    IN  b_r - FloorDivFloat(dt1, width, e) * width

(***************************************************************************)
(* number of interpolate (lines 91-92).                                    *)
(***************************************************************************)
LatticeNumber(tail_time, b_0, width, e) ==
    LET dt2 == tail_time - b_0
    IN  FloorDivFloat(dt2, width, e)

(***************************************************************************)
(* bs_ of interpolate (lines 93-95): np.linspace(0, width*number,          *)
(* int(number+1)) added to b_0; empty when number = -1.                    *)
(***************************************************************************)
LatticePointsDrifting(b_0, width, number) ==
    IF number < 0 THEN <<>>
    ELSE [k \in 1..(number + 1) |-> b_0 + (k - 1) * width + (k \div 3)]

LatticePoints(b_0, width, number) ==
    IF number < 0 THEN <<>>
    ELSE [k \in 1..(number + 1) |-> b_0 + (k - 1) * width]

(***************************************************************************)
(* df_modif[col_name].interpolate(method='values') read at time t          *)
(* (lines 102-103).  df is a sequence of rows [SysTime, cols]; the rows    *)
(* whose value is NaN are the ones to fill.  pandas fills linearly in the  *)
(* index value between the valid neighbours, leaves NaN before the first   *)
(* valid row and repeats the last valid value after it.                    *)
(***************************************************************************)
RoundDiv(num, den) == (2 * num + den) \div (2 * den)

InterpolateValuesAt(df, col_name, t) ==
    LET valid  == {i \in 1..Len(df) : df[i].cols[col_name] # NaN}
        before == {i \in valid : df[i].SysTime <= t}
        after  == {i \in valid : df[i].SysTime >= t}
    IN  IF before = {} THEN NaN
        ELSE LET a == Max(before)
             IN  IF after = {} \/ df[a].SysTime = t
                 THEN df[a].cols[col_name]
                 ELSE LET b  == Min(after)
                          ya == df[a].cols[col_name]
                          yb == df[b].cols[col_name]
                      IN  ya + RoundDiv((yb - ya) * (t - df[a].SysTime),
                                        df[b].SysTime - df[a].SysTime)

(***************************************************************************)
(* interpolate (lines 67-105).  e1, e2 are the float outcomes of the two   *)
(* floor divisions.  result pairs every lattice point with the value of    *)
(* the filled column there (df_result_[index_intersect]).                  *)
(***************************************************************************)
Interpolate(df_in, col_name, width, b_r, e1, e2) ==
    LET leading_time == df_in[1].SysTime
        tail_time    == df_in[Len(df_in)].SysTime
        b_0    == LatticeOrigin(leading_time, width, b_r, e1)
        number == LatticeNumber(tail_time, b_0, width, e2)
        bs_    == LatticePoints(b_0, width, number)
    IN  [bs     |-> bs_,
         result |-> [k \in 1..Len(bs_) |->
                        <<bs_[k], InterpolateValuesAt(df_in, col_name, bs_[k])>>],
         called |-> TRUE]


(***************************************************************************)
(* Configuration and file lists read by main().                            *)
(***************************************************************************)
\* keys of data_files_mapping after keys.sort() (lines 226-227, 383-384)
Keys == <<"s07_brownie", "s08_brownie">>

\* data_files_mapping[key][1]: the files of each session, in listed order
DataFiles(key) ==
    IF key = "s07_brownie"
    THEN <<"S07_Brownie_3DMGX1/2794">>
    ELSE <<"S08_Brownie_3DMGX1/2794", "S08_Brownie_6DOFv4/2795">>

AllFiles == UNION {{DataFiles(Keys[k])[j] : j \in 1..Len(DataFiles(Keys[k]))} :
                   k \in 1..Len(Keys)}

(***************************************************************************)
(* The keys of the two mappings.  A name is the sequence of its            *)
(* underscore-separated tokens, 'S07_Brownie_7150991' being                *)
(* <<"S07", "Brownie", "7150991">>; str.lower() works token by token since *)
(* '_' has no case.                                                        *)
(***************************************************************************)
\* str.lower() on the tokens the names of the model are made of
Lower(txt) ==
    CASE txt = "S07"     -> "s07"
      [] txt = "S08"     -> "s08"
      [] txt = "Brownie" -> "brownie"
      [] OTHER           -> txt

LowerTokens(tokens) == [k \in 1..Len(tokens) |-> Lower(tokens[k])]

\* '_'.join(tokens)
RECURSIVE Join(_)
Join(tokens) ==
    IF Len(tokens) = 0 THEN ""
    ELSE IF Len(tokens) = 1 THEN tokens[1]
    ELSE tokens[1] \o "_" \o Join(Tail(tokens))

\* data_files_mapping[key][0]: the name of each session as the file list
\* writes it (line 122)
VideoNamePrefix(key) ==
    IF key = "s07_brownie" THEN <<"S07", "Brownie">> ELSE <<"S08", "Brownie">>

\* the key get_data_file_path_list files a line under (line 123)
DataFilesKey(video_name_prefix) == Join(LowerTokens(video_name_prefix))

\* the name of each session's video as video_head_timestamp_path writes it
VideoName(key) ==
    IF key = "s07_brownie" THEN <<"S07", "Brownie", "7150991">>
    ELSE <<"s08", "brownie", "7151020">>

\* the key get_start_timestamp_mapping files a line under (lines 136-138)
StartTimestampKeyKeepingCase(video_name) ==
    Join(SubSeq(video_name, 1, Min({2, Len(video_name)})))

StartTimestampKey(video_name) ==
    LET video_name_prefix == SubSeq(video_name, 1, Min({2, Len(video_name)}))
    IN  Join(LowerTokens(video_name_prefix))

\* get_start_timestamp_mapping (lines 128-139): a later line of the file
\* replaces an earlier one with the same key
GetStartTimestampMapping(lines) ==
    LET keys == {StartTimestampKey(lines[k].video_name) : k \in 1..Len(lines)}
    IN  [key \in keys |->
            lines[Max({k \in 1..Len(lines) :
                         StartTimestampKey(lines[k].video_name) = key})].time_txt]

\* setting['resampling']['use_columns']
SeriesNames == <<"Accel_X", "Accel_Y">>
SeriesSet == {SeriesNames[k] : k \in 1..Len(SeriesNames)}

NoFile == [exists |-> FALSE, rows |-> <<>>]
CsvFile(rows) == [exists |-> TRUE, rows |-> rows]

(***************************************************************************)
(* resampling (lines 142-206) for one session.  es[k] = <<e1, e2>> are the *)
(* float outcomes of the floor divisions for the k-th file.  The state of  *)
(* the loop is st = [ret, out, raised]: ret is the dict built at lines     *)
(* 153-167 (has_ng_files: the key 'ng_files' exists), out the artifacts on *)
(* disk, raised whether 'assert False' (line 185) ended the call.          *)
(***************************************************************************)
WriteColumns(out, df_in, file, start_timestamp, e) ==
    [a \in DOMAIN out |->
        IF a[1] = file
        THEN CsvFile(Interpolate(df_in, a[2], sample_width,
                                 start_timestamp, e[1], e[2]).result)
        ELSE out[a]]

RECURSIVE ResamplingLoop(_, _, _, _, _)
ResamplingLoop(data_files, k, start_timestamp, es, st) ==
    IF k > Len(data_files) \/ st.raised THEN st
    ELSE LET file == data_files[k]
         IN  IF raw[file].st = "missing"
             THEN ResamplingLoop(data_files, k + 1, start_timestamp, es,
                      [st EXCEPT !.ret = [err          |-> TRUE,
                                          has_ng_files |-> TRUE,
                                          ng_files     |-> Append(@.ng_files, file)]])
             ELSE IF raw[file].st = "broken"
             THEN [st EXCEPT !.raised = TRUE]
             ELSE ResamplingLoop(data_files, k + 1, start_timestamp, es,
                      [st EXCEPT !.out = WriteColumns(@, raw[file].df, file,
                                                      start_timestamp, es[k])])

ResamplingSwallowingAssert(data_files, start_timestamp, es) ==
    [ResamplingLoop(data_files, 1, start_timestamp, es,
                    [ret    |-> [err |-> FALSE, has_ng_files |-> FALSE, ng_files |-> <<>>],
                     out    |-> artifacts,
                     raised |-> FALSE])
        EXCEPT !.raised = FALSE]

Resampling(data_files, start_timestamp, es) ==
    ResamplingLoop(data_files, 1, start_timestamp, es,
                   [ret    |-> [err |-> FALSE, has_ng_files |-> FALSE, ng_files |-> <<>>],
                    out    |-> artifacts,
                    raised |-> FALSE])

(***************************************************************************)
(* One iteration of the loop of resampling_main (lines 228-254).  The      *)
(* iteration for the last key returns to main(), which calls               *)
(* create_feature_main: line 378 reads the surfix from common_values and   *)
(* raises KeyError when no session set it.                                 *)
(***************************************************************************)
AfterResamplingOf(k, set) ==
    IF k < Len(Keys) THEN "resampling"
    ELSE IF set THEN "merging" ELSE "merging_raised"

\* lines 249-251; raised: ret_['ng_files'] does not exist (KeyError)
Aggregate(ret, ret_) ==
    LET err == ret.err \/ ret_.err
    IN  IF err /\ ~ret_.has_ng_files
        THEN [err |-> err, ng_files |-> ret.ng_files, raised |-> TRUE]
        ELSE [err      |-> err,
              ng_files |-> IF err THEN ret.ng_files \o ret_.ng_files
                                  ELSE ret.ng_files,
              raised   |-> FALSE]

ResamplingMainStep ==
    /\ pc = "resampling"
    /\ LET video_name_key == Keys[idx]
           data_files     == DataFiles(video_name_key)
       IN  IF video_name_key \notin DOMAIN start_timestamp_mapping
           THEN /\ pc' = AfterResamplingOf(idx, surfix_set)
                /\ idx' = IF idx < Len(Keys) THEN idx + 1 ELSE 1
                /\ UNCHANGED <<surfix_set, artifacts, ret1>>
           ELSE \E es \in [1..Len(data_files) -> {0, 1} \X {0, 1}] :
                  LET r   == Resampling(data_files,
                                        start_timestamp_mapping[video_name_key], es)
                      agg == Aggregate(ret1, r.ret)
                  IN  /\ surfix_set' = TRUE
                      /\ artifacts' = r.out
                      /\ IF r.raised
                         THEN /\ pc' = "resampling_raised"
                              /\ UNCHANGED <<idx, ret1>>
                         ELSE /\ ret1' = [err |-> agg.err, ng_files |-> agg.ng_files]
                              /\ IF agg.raised
                                 THEN pc' = "resampling_raised" /\ UNCHANGED idx
                                 ELSE /\ pc' = AfterResamplingOf(idx, TRUE)
                                      /\ idx' = IF idx < Len(Keys) THEN idx + 1 ELSE 1
    /\ UNCHANGED <<sample_width, raw, video_head_timestamps,
                   start_timestamp_mapping, ret2, selected>>
    /\ UNCHANGED <<lt_vars, sel_vars>>

(***************************************************************************)
(* create_feature (lines 284-347).  A table is a sequence of rows          *)
(* [timestamp, vals], vals holding one value per column joined so far.     *)
(***************************************************************************)
\* the (file, series) pairs in the order of the loops at lines 301-302
ColumnKeys(data_files) ==
    [n \in 1..(Len(SeriesNames) * Len(data_files)) |->
        <<data_files[((n - 1) % Len(data_files)) + 1],
          SeriesNames[((n - 1) \div Len(data_files)) + 1]>>]

Timestamps(rows) == {rows[k][1] : k \in 1..Len(rows)}
ValueAt(rows, t) == LET k == CHOOSE k \in 1..Len(rows) : rows[k][1] = t
                    IN  rows[k][2]
NaNs(n) == [k \in 1..n |-> NaN]

RECURSIVE RightOnly(_, _, _)
RightOnly(column, seen, ncols) ==
    IF column = <<>> THEN <<>>
    ELSE LET rest == RightOnly(Tail(column), seen, ncols)
         IN  IF Head(column)[1] \in seen THEN rest
             ELSE <<[timestamp |-> Head(column)[1],
                     vals      |-> Append(NaNs(ncols), Head(column)[2])]>> \o rest

MergeLeft(df_main, ncols, df_column) ==
    [k \in 1..Len(df_main) |->
        [timestamp |-> df_main[k].timestamp,
         vals      |-> Append(df_main[k].vals,
                              IF df_main[k].timestamp \in Timestamps(df_column)
                              THEN ValueAt(df_column, df_main[k].timestamp)
                              ELSE NaN)]]

\* pd.merge(df_main, df_column, on=time_stamp_col_name, how='outer'), lines 323-325
MergeOuter(df_main, ncols, df_column) ==
    MergeLeft(df_main, ncols, df_column)
        \o RightOnly(df_column, {df_main[k].timestamp : k \in 1..Len(df_main)}, ncols)

\* df_column.copy() for the first column read, lines 319-321
FirstColumn(df_column) ==
    [k \in 1..Len(df_column) |->
        [timestamp |-> df_column[k][1], vals |-> <<df_column[k][2]>>]]

\* the loops at lines 301-325 over the column keys from position n on
RECURSIVE JoinColumns(_, _, _)
JoinColumns(cols, n, st) ==
    IF n > Len(cols) THEN st
    ELSE IF ~artifacts[cols[n]].exists
    THEN JoinColumns(cols, n + 1, [st EXCEPT !.is_success = FALSE])
    ELSE IF st.is_first_column
    THEN JoinColumns(cols, n + 1,
             [st EXCEPT !.df_main = FirstColumn(artifacts[cols[n]].rows),
                        !.ncols = 1, !.is_first_column = FALSE])
    ELSE JoinColumns(cols, n + 1,
             [st EXCEPT !.df_main = MergeOuter(@, st.ncols, artifacts[cols[n]].rows),
                        !.ncols = @ + 1])

\* df_main.sort_values(by=[time_stamp_col_name], ascending=True), lines 329-330.
\* The column holds the timestamps as read back from the csv files, texts of
\* one fixed format, whose order is the order of the instants.
SortValues(df_main) ==
    LET ts == SortSet({df_main[k].timestamp : k \in 1..Len(df_main)})
    IN  [k \in 1..Len(ts) |->
            df_main[CHOOSE j \in 1..Len(df_main) : df_main[j].timestamp = ts[k]]]

\* df_main.index = np.arange(len(df_main.index)), line 331
ArangeIndex(df_main) == [k \in 1..Len(df_main) |-> k - 1]

(***************************************************************************)
(* check_nearly_time_duplicate (lines 350-365) reads df_main.index, which  *)
(* line 331 has just set to 0, 1, 2, ...; delta is a difference of row     *)
(* numbers and is compared with epsilon = 0.000100 as if it were seconds.  *)
(* TRUE when the guard ends the run.                                       *)
(***************************************************************************)
Epsilon == 2                           \* 0.000100 s: a tick is 50 microseconds
TicksPerSecond == 10000 * Epsilon

CheckNearlyTimeDuplicate(index) ==
    \E i \in 2..Len(index) :
        LET delta == index[i] - index[i - 1]
        IN  delta * TicksPerSecond < Epsilon

\* lines 336-340: the rows without nan
AnyNaN(vals) == \E k \in 1..Len(vals) : vals[k] = NaN
AllNaN(vals) == \A k \in 1..Len(vals) : vals[k] = NaN

RecordUseInfoAnyValue(row) == ~AllNaN(row.vals)

RecordUseInfo(row) == ~AnyNaN(row.vals)

SelectRecords(df_main) == SelectSeq(df_main, RecordUseInfo)

\* the whole call: [res, exited, written]
CreateFeatureWritingPartial(data_files) ==
    LET st == JoinColumns(ColumnKeys(data_files), 1,
                  [df_main |-> <<>>, ncols |-> 0,
                   is_first_column |-> TRUE, is_success |-> TRUE])
        df_main == SortValues(st.df_main)
    IN  [res |-> st.is_success, exited |-> FALSE,
         written |-> IF st.is_first_column THEN NoFile
                     ELSE CsvFile(SelectRecords(df_main))]

CreateFeature(data_files) ==
    LET st == JoinColumns(ColumnKeys(data_files), 1,
                  [df_main |-> <<>>, ncols |-> 0,
                   is_first_column |-> TRUE, is_success |-> TRUE])
        df_main == SortValues(st.df_main)
    IN  IF ~st.is_success
        THEN [res |-> FALSE, exited |-> FALSE, written |-> NoFile]
        ELSE IF CheckNearlyTimeDuplicate(ArangeIndex(df_main))
        THEN [res |-> FALSE, exited |-> TRUE, written |-> NoFile]
        ELSE [res |-> TRUE, exited |-> FALSE,
              written |-> CsvFile(SelectRecords(df_main))]

(***************************************************************************)
(* One iteration of the loop of create_feature_main (lines 385-409).       *)
(***************************************************************************)
\* lines 399-406
RecordFailure(ret, res, name) ==
    IF res THEN ret
    ELSE [err |-> TRUE, ng_files |-> Append(ret.ng_files, name)]

CreateFeatureMainStep ==
    /\ pc = "merging"
    /\ LET video_name_key == Keys[idx]
           r == CreateFeature(DataFiles(video_name_key))
       IN  IF r.exited
           THEN /\ pc' = "exited"
                /\ UNCHANGED <<idx, ret2, selected>>
           ELSE /\ selected' = IF r.written.exists
                               THEN [selected EXCEPT ![video_name_key] = r.written]
                               ELSE selected
                /\ ret2' = RecordFailure(ret2, r.res, video_name_key)
                /\ pc' = IF idx < Len(Keys) THEN "merging" ELSE "finished"
                /\ idx' = IF idx < Len(Keys) THEN idx + 1 ELSE idx
    /\ UNCHANGED <<sample_width, raw, video_head_timestamps,
                   start_timestamp_mapping, surfix_set, artifacts, ret1>>
    /\ UNCHANGED <<lt_vars, sel_vars>>

(***************************************************************************)
(* select_data_main (sensor_selected_timestamp.py, lines 27-108) for one   *)
(* key.  Its timestamps are counted in ticks of the shortest sample period *)
(* among FpsChoices; the other sample periods are whole ticks.             *)
(***************************************************************************)
FpsChoices == {1, 2}
SelTicksPerSecond == Max(FpsChoices)
SecondsPerDay == 86400          \* Timedelta.seconds lies in 0..86399
TicksPerDay == SecondsPerDay * SelTicksPerSecond

\* timestamp_diff.seconds + timestamp_diff.microseconds / 1000000.0 (lines
\* 69-71), in ticks: the days of the Timedelta are not part of either field
TimeSec(timestamp_diff) == timestamp_diff % TicksPerDay

\* int(time_sec * fps), line 73
RowNumber(time_sec, rate) == (time_sec * rate) \div SelTicksPerSecond

\* lines 74-91: row_number rows of zeros before the rows read
ZeroPadding(df, min_time_sensor_in, row_number, rate) ==
    [i \in 1..row_number |->
        [timestamp |-> min_time_sensor_in
                         - ((row_number - (i - 1)) * SelTicksPerSecond) \div rate,
         vals      |-> [c \in 1..Len(df[1].vals) |-> 0]]]

InWindowBelowLast(row, min_time, max_time) ==
    min_time <= row.timestamp /\ row.timestamp < max_time

\* lines 95-96
InWindow(row, min_time, max_time) ==
    min_time <= row.timestamp /\ row.timestamp <= max_time

\* the body of the loop: [written, rows]; an empty table is skipped (line 53)
SelectData(df, min_ref, rate) ==
    IF Len(df) = 0 THEN NoFile
    ELSE LET min_time_sensor_in == df[1].timestamp
             max_time_sensor_in == df[Len(df)].timestamp
         IN  IF min_ref < min_time_sensor_in
             THEN LET timestamp_diff == min_time_sensor_in - min_ref
                      row_number == RowNumber(TimeSec(timestamp_diff), rate)
                  IN  CsvFile(ZeroPadding(df, min_time_sensor_in, row_number, rate)
                              \o df)
             ELSE LET min_time == IF min_ref >= min_time_sensor_in
                                  THEN min_ref ELSE min_time_sensor_in
                      Keep(row) == InWindow(row, min_time, max_time_sensor_in)
                  IN  CsvFile(SelectSeq(df, Keep))

SelectDataMain ==
    /\ sel_runs = 0
    /\ sel_runs' = 1
    /\ sel_out' = [sel_out EXCEPT ![1] = SelectData(df_sensor_in, min_time_video, fps)]
    /\ UNCHANGED <<df_sensor_in, min_time_video, fps>>
    /\ UNCHANGED <<lt_vars, main_vars>>

\* the programme run again with the written table as its input (no table,
\* no key in sensor_files_mapping: nothing is read or written)
SelectDataMainAgain ==
    /\ sel_runs = 1
    /\ sel_runs' = 2
    /\ sel_out' = [sel_out EXCEPT ![2] =
                      IF sel_out[1].exists
                      THEN SelectData(sel_out[1].rows, min_time_video, fps)
                      ELSE NoFile]
    /\ UNCHANGED <<df_sensor_in, min_time_video, fps>>
    /\ UNCHANGED <<lt_vars, main_vars>>

(***************************************************************************)
(* Harness of interpolate: the inputs are drawn from bounded sets and the  *)
(* function is applied to two series with the same anchor and width.       *)
(***************************************************************************)
ValueUnit == 1000000              \* 1.0 in the 1e-6 units of '%.6f'
HarnessCol == "Accel_X"

SampleValue(c, t) == (t * t + (IF c = HarnessCol THEN 1 ELSE 2)) * ValueUnit

\* rows at the times T, ascending; the rows at the times in N have no value
SeriesAt(T, N, columns) ==
    LET ts == SortSet(T)
    IN  [k \in 1..Len(ts) |->
            [SysTime |-> ts[k],
             cols    |-> [c \in columns |->
                             IF ts[k] \in N THEN NaN ELSE SampleValue(c, ts[k])]]]

SampleTimeSets ==
    {T \in SUBSET (0..MaxTime) : T # {} /\ Cardinality(T) <= MaxSamples}

Anchors == (0 - 1)..(MaxTime + 1)
Widths  == 1..MaxWidth

\* the variables of main() while only the harness runs
MainIdle ==
    /\ sample_width = 1
    /\ raw = [f \in AllFiles |-> [st |-> "missing", df |-> <<>>]]
    /\ video_head_timestamps = <<>>
    /\ start_timestamp_mapping = <<>>
    /\ pc = "idle"
    /\ idx = 1
    /\ surfix_set = FALSE
    /\ artifacts = [a \in AllFiles \X SeriesSet |-> NoFile]
    /\ ret1 = [err |-> FALSE, ng_files |-> <<>>]
    /\ ret2 = [err |-> FALSE, ng_files |-> <<>>]
    /\ selected = [k \in {Keys[n] : n \in 1..Len(Keys)} |-> NoFile]

\* the variables of select_data_main while it does not run
SelectIdle ==
    /\ df_sensor_in = <<>>
    /\ min_time_video = 0
    /\ fps = 1
    /\ sel_out = <<NoFile, NoFile>>
    /\ sel_runs = 0

\* the variables of the harness while main() runs
LatticeIdle ==
    /\ lt_in = <<<<>>, <<>>>>
    /\ lt_anchor = 0
    /\ lt_width = 1
    /\ lt_out = <<NoResult, NoResult>>

LInit ==
    /\ \E T \in SampleTimeSets : \E N \in SUBSET T :
         \E lo \in 0..MaxTime : \E hi \in lo..MaxTime :
            lt_in = <<SeriesAt(T, N, {HarnessCol}), SeriesAt({lo, hi}, {}, {HarnessCol})>>
    /\ lt_anchor \in Anchors
    /\ lt_width \in Widths
    /\ lt_out = <<NoResult, NoResult>>
    /\ MainIdle
    /\ SelectIdle

LResample(i) ==
    /\ ~lt_out[i].called
    /\ \E e1 \in {0, 1} : \E e2 \in {0, 1} :
         lt_out' = [lt_out EXCEPT ![i] =
                       Interpolate(lt_in[i], HarnessCol, lt_width, lt_anchor, e1, e2)]
    /\ UNCHANGED <<lt_in, lt_anchor, lt_width>>
    /\ UNCHANGED <<main_vars, sel_vars>>

LNext == LResample(1) \/ LResample(2)

SpecLattice == LInit /\ [][LNext]_vars

(***************************************************************************)
(* main() of resampling_sensor_raw_data.py (lines 413-441): a fresh output *)
(* directory, then resampling_main, then create_feature_main.  A raw file  *)
(* is missing, broken (a SysTime field that is not text is left after the  *)
(* ERR rows are dropped) or holds samples at two times that are at least   *)
(* one sample width apart, so that its lattice has a point.                *)
(***************************************************************************)
FileMaxTime  == 3    \* sample timestamps of the raw files lie in 0..FileMaxTime
FileMaxWidth == 2    \* sample widths 1..FileMaxWidth
StartTimes   == {0, 1}

RawFiles(width) ==
    {[st |-> "missing", df |-> <<>>], [st |-> "broken", df |-> <<>>]}
    \cup UNION {{[st |-> "ok", df |-> SeriesAt({lo, hi}, {}, SeriesSet)] :
                    hi \in (lo + width)..FileMaxTime} : lo \in 0..FileMaxTime}

KeySet == {Keys[n] : n \in 1..Len(Keys)}

\* the lines of video_head_timestamp_path: one line for each session of K,
\* in the order of the keys, with the start time times[key]
RECURSIVE VideoHeadLines(_, _)
VideoHeadLines(n, times) ==
    IF n > Len(Keys) THEN <<>>
    ELSE IF Keys[n] \in DOMAIN times
    THEN <<[video_name |-> VideoName(Keys[n]), time_txt |-> times[Keys[n]]]>>
             \o VideoHeadLines(n + 1, times)
    ELSE VideoHeadLines(n + 1, times)

Init ==
    /\ sample_width \in 1..FileMaxWidth
    /\ raw \in [AllFiles -> RawFiles(sample_width)]
    /\ \E K \in SUBSET KeySet : \E times \in [K -> StartTimes] :
          video_head_timestamps = VideoHeadLines(1, times)
    /\ start_timestamp_mapping = GetStartTimestampMapping(video_head_timestamps)
    /\ pc = "resampling"
    /\ idx = 1
    /\ surfix_set = FALSE
    /\ artifacts = [a \in AllFiles \X SeriesSet |-> NoFile]
    /\ ret1 = [err |-> FALSE, ng_files |-> <<>>]
    /\ ret2 = [err |-> FALSE, ng_files |-> <<>>]
    /\ selected = [k \in KeySet |-> NoFile]
    /\ LatticeIdle
    /\ SelectIdle

Next == ResamplingMainStep \/ CreateFeatureMainStep

Spec == Init /\ [][Next]_vars

(***************************************************************************)
(* select_data_main on one merged table, then again on what it wrote.  The *)
(* table is sorted by time; it starts within SelMaxTime ticks of the zero  *)
(* of the clock or a whole day later, and the video starts no later than   *)
(* the clock time at which a day-late table starts.                        *)
(***************************************************************************)
SelMaxTime == 5    \* row and video timestamps lie in 0..SelMaxTime (+ a day)

TableAt(T, shift) ==
    LET ts == SortSet(T)
    IN  [k \in 1..Len(ts) |->
            [timestamp |-> shift + ts[k],
             vals      |-> <<SampleValue(SeriesNames[1], ts[k]),
                             SampleValue(SeriesNames[2], ts[k])>>]]

SInit ==
    /\ \E T \in SUBSET (0..SelMaxTime) : \E shift \in {0, TicksPerDay} :
          /\ df_sensor_in = TableAt(T, shift)
          /\ min_time_video \in 0..SelMaxTime
          /\ shift = 0 \/ (T # {} /\ min_time_video <= Min(T))
    /\ fps \in FpsChoices
    /\ sel_out = <<NoFile, NoFile>>
    /\ sel_runs = 0
    /\ MainIdle
    /\ LatticeIdle

SNext == SelectDataMain \/ SelectDataMainAgain

SpecSelect == SInit /\ [][SNext]_vars


(***************************************************************************)
(* Claims about interpolate, checked under SpecLattice.                    *)
(***************************************************************************)
LFirst(i)   == lt_in[i][1].SysTime                    \* t0
LLast(i)    == lt_in[i][Len(lt_in[i])].SysTime        \* t1
LLattice(i) == lt_out[i].bs
LPoints(i)  == {LLattice(i)[k] : k \in 1..Len(LLattice(i))}
LNonEmpty(i) == lt_out[i].called /\ Len(LLattice(i)) > 0

\* C3 as stated: the first lattice point is the largest anchor-congruent
\* point not after t0, i.e. lattice[0] <= t0 < lattice[0] + width.
C3_OriginNotAfterFirstSample ==
    \A i \in {1, 2} :
        LNonEmpty(i) =>
            /\ LLattice(i)[1] <= LFirst(i)
            /\ LFirst(i) < LLattice(i)[1] + lt_width

\* C3 amended: a non-empty lattice starts at an anchor-congruent point with
\* t0 <= lattice[0] <= t0 + width, and lattice[0] < t0 + width whenever t0
\* is not itself anchor-congruent (the origin is not before t0).
C3_OriginNotBeforeFirstSample ==
    \A i \in {1, 2} :
        LNonEmpty(i) =>
            /\ LFirst(i) <= LLattice(i)[1]
            /\ LLattice(i)[1] <= LFirst(i) + lt_width
            /\ (LLattice(i)[1] - lt_anchor) % lt_width = 0
            /\ (LFirst(i) - lt_anchor) % lt_width # 0
                   => LLattice(i)[1] < LFirst(i) + lt_width

\* C3 witness: a lattice whose first point lies strictly between t0 and
\* t0 + width.
C3_Witness ==
    /\ LNonEmpty(1)
    /\ LFirst(1) < LLattice(1)[1]
    /\ LLattice(1)[1] < LFirst(1) + lt_width

\* C4: every lattice is a uniform grid phase-locked to the anchor:
\* consecutive points differ by width exactly and every point is congruent
\* to the anchor modulo width.
C4_UniformPhaseLockedGrid ==
    \A i \in {1, 2} :
        lt_out[i].called =>
            \A k \in 1..Len(LLattice(i)) :
                /\ (LLattice(i)[k] - lt_anchor) % lt_width = 0
                /\ k < Len(LLattice(i))
                       => LLattice(i)[k + 1] - LLattice(i)[k] = lt_width

\* C4 witness: a lattice of two or more points, with a width above one tick,
\* for a series that ends before the anchor, and a lattice of two or more
\* points for a series whose span holds the anchor.
C4_Witness ==
    /\ LNonEmpty(1) /\ Len(LLattice(1)) >= 2 /\ LLast(1) < lt_anchor
    /\ LNonEmpty(2) /\ Len(LLattice(2)) >= 2
    /\ LFirst(2) <= lt_anchor /\ lt_anchor <= LLast(2)
    /\ lt_width > 1

\* C5: two series resampled with the same anchor and width: every point of
\* one lattice inside the other lattice's [first, last] range is a point of
\* the other lattice.
C5_LatticesAgreeOnOverlap ==
    \A i \in {1, 2} : \A j \in {1, 2} :
        (LNonEmpty(i) /\ LNonEmpty(j)) =>
            \A p \in LPoints(i) :
                (LLattice(j)[1] <= p /\ p <= LLattice(j)[Len(LLattice(j))])
                    => p \in LPoints(j)

\* C5 witness: two partly overlapping spans with different first samples,
\* each lattice holding a point of the overlap and a point outside the other.
C5_Witness ==
    /\ LNonEmpty(1) /\ LNonEmpty(2)
    /\ lt_width > 1
    /\ (LFirst(1) - LFirst(2)) % lt_width # 0
    /\ LPoints(1) \cap LPoints(2) # {}
    /\ LPoints(1) \ LPoints(2) # {}
    /\ LPoints(2) \ LPoints(1) # {}

\* C6: every lattice point lies in [t0, t1], the lattice has exactly
\* floor((t1 - b0) / width) + 1 points from its origin b0 (an anchor-congruent
\* point in [t0, t1] is never left out), and when every sample has a value
\* the returned series has one defined value per lattice point.
C6_LatticeInsideSpanWithExactCount ==
    \A i \in {1, 2} :
        lt_out[i].called =>
            /\ \A p \in LPoints(i) : LFirst(i) <= p /\ p <= LLast(i)
            /\ LNonEmpty(i) =>
                   Len(LLattice(i)) = ((LLast(i) - LLattice(i)[1]) \div lt_width) + 1
            /\ ~LNonEmpty(i) =>
                   \A p \in LFirst(i)..LLast(i) : (p - lt_anchor) % lt_width # 0
            /\ Len(lt_out[i].result) = Len(LLattice(i))
            /\ (\A r \in 1..Len(lt_in[i]) : lt_in[i][r].cols[HarnessCol] # NaN)
                   => \A k \in 1..Len(lt_out[i].result) :
                          /\ lt_out[i].result[k][1] = LLattice(i)[k]
                          /\ lt_out[i].result[k][2] # NaN


(***************************************************************************)
(* Claims about main(), checked under Spec.                                *)
(***************************************************************************)
FilesOf(key) == {DataFiles(key)[j] : j \in 1..Len(DataFiles(key))}
WithStart == {n \in 1..Len(Keys) : Keys[n] \in DOMAIN start_timestamp_mapping}
ResamplingReturned == pc \in {"merging", "merging_raised", "finished", "exited"}

RECURSIVE MissingFilesFrom(_, _)
MissingFilesFrom(n, j) ==
    IF n > Len(Keys) THEN <<>>
    ELSE IF j > Len(DataFiles(Keys[n])) THEN MissingFilesFrom(n + 1, 1)
    ELSE IF n \in WithStart /\ raw[DataFiles(Keys[n])[j]].st = "missing"
    THEN <<DataFiles(Keys[n])[j]>> \o MissingFilesFrom(n, j + 1)
    ELSE MissingFilesFrom(n, j + 1)

\* C1: when raw files are missing (and none is broken) resampling_main never
\* ends early: it returns, every file that is present in a session with a
\* start timestamp has its artifacts, and the not-ok list holds exactly the
\* missing files of the processed sessions.
C1_MissingFilesNeverStopTheRun ==
    (\A f \in AllFiles : raw[f].st # "broken") =>
        /\ pc # "resampling_raised"
        /\ ResamplingReturned =>
              /\ ret1.ng_files = MissingFilesFrom(1, 1)
              /\ \A n \in WithStart : \A f \in FilesOf(Keys[n]) :
                    raw[f].st = "ok" =>
                        \A c \in SeriesSet : artifacts[<<f, c>>].exists

\* C2: no session table is written with two consecutive rows whose
\* timestamps are closer than epsilon.
C2_NoNearDuplicateRowsWritten ==
    \A key \in KeySet :
        selected[key].exists =>
            \A k \in 2..Len(selected[key].rows) :
                selected[key].rows[k].timestamp
                    - selected[key].rows[k - 1].timestamp >= Epsilon

\* the timestamps every column of the session has
CommonTimestamps(key) ==
    LET cols == ColumnKeys(DataFiles(key))
    IN  {t \in Timestamps(artifacts[cols[1]].rows) :
            \A n \in 1..Len(cols) : t \in Timestamps(artifacts[cols[n]].rows)}

\* C7: a written session table holds, in ascending time order, exactly the
\* rows of the outer join that are complete: one row per timestamp that every
\* column has, carrying each column's value there, none of them missing.
C7_WrittenRowsAreTheCompleteRows ==
    \A key \in KeySet :
        selected[key].exists =>
            LET cols == ColumnKeys(DataFiles(key))
                rows == selected[key].rows
            IN  /\ {rows[k].timestamp : k \in 1..Len(rows)} = CommonTimestamps(key)
                /\ \A k \in 2..Len(rows) : rows[k - 1].timestamp < rows[k].timestamp
                /\ \A k \in 1..Len(rows) :
                      /\ Len(rows[k].vals) = Len(cols)
                      /\ \A n \in 1..Len(cols) :
                            /\ rows[k].vals[n] # NaN
                            /\ rows[k].vals[n] =
                                  ValueAt(artifacts[cols[n]].rows, rows[k].timestamp)

\* C7 witness: file A resampled at {t0, t1}, file B at {t1, t2}; the table
\* written for the session has the single row at t1.
C7_Witness ==
    LET key == "s08_brownie"
        A == <<DataFiles(key)[1], SeriesNames[1]>>
        B == <<DataFiles(key)[2], SeriesNames[1]>>
    IN  /\ selected[key].exists
        /\ \E t \in 0..FileMaxTime :
              /\ Timestamps(artifacts[A].rows) = {t, t + sample_width}
              /\ Timestamps(artifacts[B].rows) =
                     {t + sample_width, t + 2 * sample_width}
              /\ Len(selected[key].rows) = 1
              /\ selected[key].rows[1].timestamp = t + sample_width

AllArtifacts(key) ==
    \A n \in 1..Len(ColumnKeys(DataFiles(key))) :
        artifacts[ColumnKeys(DataFiles(key))[n]].exists
SomeArtifact(key) ==
    \E n \in 1..Len(ColumnKeys(DataFiles(key))) :
        artifacts[ColumnKeys(DataFiles(key))[n]].exists
Merged == IF pc = "finished" THEN 1..Len(Keys)
          ELSE IF pc = "merging" THEN 1..(idx - 1) ELSE {}
InNgFiles(ret, name) == \E k \in 1..Len(ret.ng_files) : ret.ng_files[k] = name

SameIgnoringCase(a, b) ==
    /\ Len(a) = Len(b)
    /\ \A k \in 1..Len(a) : Lower(a[k]) = Lower(b[k])

\* the lines of the timestamp file whose video name starts with the two
\* tokens of the name the file list gives session n, whatever the case
LinesOf(n) ==
    {k \in 1..Len(video_head_timestamps) :
        /\ Len(video_head_timestamps[k].video_name) >= 2
        /\ SameIgnoringCase(SubSeq(video_head_timestamps[k].video_name, 1, 2),
                            VideoNamePrefix(Keys[n]))}

\* C11: the sessions are joined on the lower-cased key.  An iteration of the
\* resampling driver for a session without a line in the timestamp file
\* writes no artifact, adds nothing to the not-ok list and goes on to the next
\* key in sorted order (or returns after the last one); an iteration for a
\* session with a line, in whatever letter case, is not skipped: resampling
\* is called with the start timestamp of that line, so that a first file
\* that can be read gets its artifacts on the lattice anchored there.
C11_SessionsJoinedOnLowerCasedKey ==
    [][pc = "resampling" =>
         /\ Keys[idx] = DataFilesKey(VideoNamePrefix(Keys[idx]))
         /\ LinesOf(idx) = {} =>
                /\ artifacts' = artifacts
                /\ ret1' = ret1
                /\ surfix_set' = surfix_set
                /\ idx < Len(Keys) => (pc' = "resampling" /\ idx' = idx + 1)
                /\ idx = Len(Keys) => pc' \in {"merging", "merging_raised"}
         /\ LinesOf(idx) # {} =>
                LET line  == video_head_timestamps[Max(LinesOf(idx))]
                    first == DataFiles(Keys[idx])[1]
                IN  /\ Keys[idx] \in DOMAIN start_timestamp_mapping
                    /\ start_timestamp_mapping[Keys[idx]] = line.time_txt
                    /\ surfix_set'
                    /\ raw[first].st = "ok" =>
                           \A c \in SeriesSet :
                              /\ artifacts'[<<first, c>>].exists
                              /\ \A t \in Timestamps(artifacts'[<<first, c>>].rows) :
                                     (t - line.time_txt) % sample_width = 0
                    /\ raw[first].st = "missing" =>
                           (pc' = "resampling_raised" \/ InNgFiles(ret1', first))
    ]_vars

\* C11 witness: the driver has returned; the first session has no line in
\* the timestamp file and no artifact although its file can be read; the
\* second session's video name is written in another letter case than its
\* name in the file list, and the artifacts of its files are written.
C11_Witness ==
    /\ ResamplingReturned
    /\ LinesOf(1) = {}
    /\ \A f \in FilesOf(Keys[1]) :
          raw[f].st = "ok" /\ \A c \in SeriesSet : ~artifacts[<<f, c>>].exists
    /\ \E k \in LinesOf(2) :
          SubSeq(video_head_timestamps[k].video_name, 1, 2) # VideoNamePrefix(Keys[2])
    /\ \A f \in FilesOf(Keys[2]) : \A c \in SeriesSet : artifacts[<<f, c>>].exists
    /\ ret1.ng_files = <<>>

\* the positions of the files of session n that are broken: a SysTime field
\* that is not text is left after the ERR rows are dropped
BrokenIn(n) == {j \in 1..Len(DataFiles(Keys[n])) : raw[DataFiles(Keys[n])[j]].st = "broken"}
NoArtifact(f) == \A c \in SeriesSet : ~artifacts[<<f, c>>].exists

\* C12 as stated: a broken file is fatal for that file only.  With every
\* file on disk, no artifact is written for a broken file, the driver does
\* not end early, and once it has returned every readable file of a session
\* with a start timestamp has its artifacts.
C12_CorruptFileFatalForThatFileOnly ==
    (\A f \in AllFiles : raw[f].st # "missing") =>
        /\ \A f \in AllFiles : raw[f].st = "broken" => NoArtifact(f)
        /\ pc # "resampling_raised"
        /\ ResamplingReturned =>
              \A n \in WithStart : \A f \in FilesOf(Keys[n]) :
                  raw[f].st = "ok" => ~NoArtifact(f)

\* C12 amended: a broken file of a session with a start timestamp is fatal
\* for the whole run.  No artifact is ever written for it, for a later file
\* of its session or for a later session; the driver never gets past its
\* session and never returns, so no session table is merged; and when the
\* run has ended at its session, the readable files listed before the first
\* broken one have their artifacts.
C12_CorruptFileEndsTheRun ==
    \A n \in WithStart :
        BrokenIn(n) # {} =>
            LET j == Min(BrokenIn(n))
                data_files == DataFiles(Keys[n])
            IN  /\ \A k \in j..Len(data_files) : NoArtifact(data_files[k])
                /\ \A m \in (n + 1)..Len(Keys) :
                      \A f \in FilesOf(Keys[m]) : NoArtifact(f)
                /\ pc \in {"resampling", "resampling_raised"}
                /\ idx <= n
                /\ \A key \in KeySet : ~selected[key].exists
                /\ ret2 = [err |-> FALSE, ng_files |-> <<>>]
                /\ (pc = "resampling_raised" /\ idx = n) =>
                      \A k \in 1..(j - 1) :
                          raw[data_files[k]].st = "ok" => ~NoArtifact(data_files[k])

\* C12 witness: the first session was resampled; the second session has a
\* start timestamp, its first file was resampled and its second file is
\* broken: the run has ended there with no artifact for that file.
C12_Witness ==
    /\ pc = "resampling_raised" /\ idx = 2
    /\ WithStart = {1, 2}
    /\ \A f \in FilesOf(Keys[1]) : raw[f].st = "ok" /\ ~NoArtifact(f)
    /\ BrokenIn(2) = {2}
    /\ raw[DataFiles(Keys[2])[1]].st = "ok"
    /\ ~NoArtifact(DataFiles(Keys[2])[1])
    /\ NoArtifact(DataFiles(Keys[2])[2])


(***************************************************************************)
(* Claims about select_data_main, checked under SpecSelect.                *)
(***************************************************************************)
SamplePeriod == SelTicksPerSecond \div fps        \* 1/fps in ticks
TrimBranch == Len(df_sensor_in) > 0 /\ min_time_video >= df_sensor_in[1].timestamp
PadBranch  == Len(df_sensor_in) > 0 /\ min_time_video < df_sensor_in[1].timestamp
IsSuffix(rows, all) ==
    /\ Len(rows) <= Len(all)
    /\ \A k \in 1..Len(rows) : all[Len(all) - Len(rows) + k] = rows[k]

\* C8 as stated: on the trim branch, selecting again with the same min_ref
\* from the trimmed table returns that table unchanged, whatever its gaps.
C8_TrimIsIdempotent ==
    (TrimBranch /\ sel_runs = 2 /\ sel_out[2].exists) =>
        sel_out[2].rows = sel_out[1].rows

\* C8 amended: on the trim branch, selecting again with the same min_ref
\* removes no row of the trimmed table and adds no row to it when its first
\* row is less than one sample period after min_ref; an empty trimmed table
\* is skipped and not written again.
C8_TrimIsIdempotentWithinOnePeriod ==
    (TrimBranch /\ sel_runs = 2) =>
        /\ sel_out[1].exists
        /\ \A k \in 1..Len(sel_out[1].rows) :
              /\ sel_out[1].rows[k].timestamp >= min_time_video
              /\ \E j \in 1..Len(df_sensor_in) : df_sensor_in[j] = sel_out[1].rows[k]
        /\ Len(sel_out[1].rows) = 0 => ~sel_out[2].exists
        /\ Len(sel_out[1].rows) > 0 =>
              /\ sel_out[2].exists
              /\ IsSuffix(sel_out[1].rows, sel_out[2].rows)
              /\ sel_out[1].rows[1].timestamp - min_time_video < SamplePeriod
                    => sel_out[2].rows = sel_out[1].rows

\* C8 witness: the trim removed a row, the trimmed table has no row at
\* min_ref and a gap between its rows, and the second run returned it
\* unchanged.
C8_Witness ==
    /\ TrimBranch /\ sel_runs = 2
    /\ Len(sel_out[1].rows) >= 2
    /\ Len(sel_out[1].rows) < Len(df_sensor_in)
    /\ sel_out[1].rows[1].timestamp > min_time_video
    /\ sel_out[1].rows[2].timestamp - sel_out[1].rows[1].timestamp > SamplePeriod
    /\ sel_out[2].exists
    /\ sel_out[2].rows = sel_out[1].rows

\* C9: when min_ref < min_sensor the written table is the rows read preceded
\* by all-zero rows at min_sensor - j/fps for j = k, ..., 1; none of them is
\* below min_ref and they reach down to min_ref (less than 1/fps above it,
\* at min_ref when the gap is a whole number of sample periods), for every
\* size of the gap.
C9_ZeroPaddingReachesMinRef ==
    (PadBranch /\ sel_runs >= 1) =>
        /\ sel_out[1].exists
        /\ IsSuffix(df_sensor_in, sel_out[1].rows)
        /\ LET out == sel_out[1].rows
               k   == Len(out) - Len(df_sensor_in)
               min_sensor == df_sensor_in[1].timestamp
           IN  /\ \A i \in 1..k :
                     /\ out[i].timestamp = min_sensor - (k - (i - 1)) * SamplePeriod
                     /\ out[i].timestamp >= min_time_video
                     /\ \A c \in 1..Len(out[i].vals) : out[i].vals[c] = 0
               /\ out[1].timestamp - min_time_video < SamplePeriod
               /\ (min_sensor - min_time_video) % SamplePeriod = 0
                     => out[1].timestamp = min_time_video

====
